---- MODULE Spec2Model ----
(***************************************************************************)
(* Self-correcting structured extraction: the ReflectionWorkflow           *)
(* (scrapper/reflection_workflow.py) and the StructuredAccumulate response *)
(* synthesizer (scrapper/structured_accumulate.py), with the accumulator   *)
(* of main.py as the merge function.                                       *)
(***************************************************************************)
EXTENDS Integers, Sequences, FiniteSets, TLC

\* ------------------------------------------------------------------ bounds
\* Largest number of text chunks handed to the synthesizer.
MaxChunks == 2
\* Largest max_retries a stand-alone ReflectionWorkflow is constructed with.
MaxAttempts == 4
\* max_retries default of ReflectionWorkflow.__init__.
DefaultMaxRetries == 3

\* ------------------------------------------------------------------- texts
\* A text is a record: kind says what the string is, arts the article ids it
\* talks about, pad whether a JSON document carries non-canonical whitespace.
Text(k, a, p) == [kind |-> k, arts |-> a, pad |-> p]
\* Python None (an absent "data" keyword).
NoneData == Text("none", <<>>, FALSE)
\* The empty string "".
EmptyText == Text("empty", <<>>, FALSE)
\* A placeholder for an event field the event type does not have.
NoText == Text("unset", <<>>, FALSE)
\* JSON document of an Articles object.
Json(a, p) == Text("json", a, p)
\* Model output that is not a JSON document of the schema.
Junk(a) == Text("junk", a, FALSE)
MaxRetriesMsg == Text("Max retries reached", <<>>, FALSE)
NoInputMsg == Text("Please provide some text in input", <<>>, FALSE)
\* Outcome of a model call that raises (transport error, timeout).
TransportError == Text("transport_error", <<>>, FALSE)

\* output_cls.model_validate_json: does the text parse as the schema?
Validates(t) == t.kind = "json"
\* The parsed Articles value (its list of articles).
ModelValidateJson(t) == t.arts
\* str(e) of the validation exception raised for text t.
ErrorOf(t) ==
    Text(CASE t.kind = "junk" -> "Invalid JSON: expected value"
           [] t.kind \in {"empty", "none"} -> "Invalid JSON: EOF while parsing a value"
           [] OTHER -> "Invalid JSON", t.arts, t.pad)
\* Articles.model_dump_json: canonical serialization.
ModelDumpJson(v) == Json(v, FALSE)
\* Mutant: the test `data is None` in place of `not data`.
NotDataNoneOnly(d) == d.kind = "none"
\* Python truthiness of `data` negated: `not data`.
NotData(d) == d.kind \in {"none", "empty"}

\* The text of chunk i (context_str of the primary prompt).
ChunkText(i) == Text("chunk", <<i>>, FALSE)
\* text_qa_template formatted with context_str = c.
QAPrompt(c) ==
    [template |-> "TEXT_QA", context |-> c, wrong_answer |-> NoText, error |-> NoText]
\* EXTRACTION_PROMPT formatted with data = d, followed by REFLECTION_PROMPT
\* formatted with wrong_answer = w and error = e.
ReflectionPrompt(d, w, e) ==
    [template |-> "EXTRACTION+REFLECTION", context |-> d, wrong_answer |-> w, error |-> e]

\* What the model may answer for chunk i (or for a retry on it).
LLMOutputs(i) == {Json(<<i>>, FALSE), Json(<<i>>, TRUE), Junk(<<i>>), EmptyText}
LLMOutcomes(i) == LLMOutputs(i) \cup {TransportError}

\* ------------------------------------------------------------ output items
\* An element of the `outputs` list handed to _merge_outputs.
Value(v) == [tag |-> "value", v |-> v]
None == [tag |-> "none", v |-> <<>>]
\* An un-awaited coroutine object of _give_response for chunk i.
Coroutine(i) == [tag |-> "coroutine", v |-> <<i>>]

VARIABLES
    streaming,   \* self._streaming
    useAsync,    \* self._use_async
    numChunks,   \* len(text_chunks); chunk i is the text about article i
    entry,       \* which entry point was called: "none", "get", "aget", "run"
    phase,       \* "constructed", "running", "returned", "raised", "standalone"
    outputs,     \* the list handed to _merge_outputs
    mergeLog,    \* history: the (acc, o) pairs the accumulator was called with
    response,    \* the return value of get_response / aget_response
    error,       \* the exception raised to the caller, "" if none
    taskPc,      \* per chunk: position of the _give_response coroutine
    taskOut,     \* per chunk: its return value
    calls,       \* per chunk: model invocations of the primary call
    result,      \* per chunk: `result`, the text the primary call returned
    taskErr,     \* per chunk: the exception the task ended with, "" if none
    completed,   \* history: chunk indices in the order their tasks finished
    wfState,     \* per chunk: state of the ReflectionWorkflow run
    retries,     \* per chunk: ctx "retries"
    maxRetries,  \* per chunk: self.max_retries
    wfEv,        \* per chunk: the event in flight
    wfInFlight,  \* per chunk: extract is suspended in llm.acomplete
    wfResult,    \* per chunk: StopEvent result
    wfCalls,     \* per chunk: history, model invocations made by the workflow
    wfTrace,     \* per chunk: history, the states the run went through
    wfInput,     \* per chunk: history, the data the run was started with
    prompts,     \* per chunk: history, the prompts sent to the model
    responses,   \* per chunk: history, the outcomes of the model calls
    mergeTest    \* the arguments and results of accumulator calls made directly

synthVars == <<streaming, useAsync, numChunks, entry, phase, outputs, mergeLog,
               response, error>>
taskVars == <<taskPc, taskOut, calls, result, taskErr, completed>>
wfVars == <<wfState, retries, maxRetries, wfEv, wfInFlight, wfResult, wfCalls,
            wfTrace, wfInput>>
histVars == <<prompts, responses>>
vars == <<synthVars, taskVars, wfVars, histVars, mergeTest>>

Chunks == 1..numChunks

\* --------------------------------------------------------------- events
StartEvent(d) ==
    [type |-> "StartEvent", data |-> d, output |-> NoText,
     wrong_output |-> NoText, error |-> NoText]
ExtractionDone(o, d) ==
    [type |-> "ExtractionDone", data |-> d, output |-> o,
     wrong_output |-> NoText, error |-> NoText]
ValidationErrorEvent(e, w, d) ==
    [type |-> "ValidationErrorEvent", data |-> d, output |-> NoText,
     wrong_output |-> w, error |-> e]
NoEvent ==
    [type |-> "none", data |-> NoText, output |-> NoText,
     wrong_output |-> NoText, error |-> NoText]

Terminal == {"Succeeded", "GaveUp", "NoInput", "Failed"}

\* No direct accumulator call was made.
NoMergeTest ==
    [pc |-> "unused", a |-> None, b |-> None, c |-> None,
     ident |-> None, left |-> None, right |-> None, single |-> NoText]

\* ------------------------------------------------------------ the merge
\* Mutant: the `if acc is None` test is missing, so acc.articles raises.
AccumulatorNoNoneCheck(acc, data) ==
    IF acc.tag = "value" /\ data.tag = "value"
    THEN [acc |-> Value(acc.v \o data.v), err |-> ""]
    ELSE [acc |-> acc, err |-> "AttributeError"]

\* main.py accumulator(acc, data). acc and data are output items; the result
\* is [acc, err]: attribute access on a coroutine object raises.
Accumulator(acc, data) ==
    IF acc.tag = "none" THEN [acc |-> data, err |-> ""]
    ELSE IF acc.tag = "value" /\ data.tag = "value"
         THEN [acc |-> Value(acc.v \o data.v), err |-> ""]
         ELSE [acc |-> acc, err |-> "AttributeError"]

\* Mutant: the `o is not None` test is missing.
IsSkippedNever(o) == FALSE
\* _merge_outputs skips an output o when `o is not None` is false.
IsSkipped(o) == o.tag = "none"

\* The loop of _merge_outputs over outs[k..], from accumulator acc with the
\* calls made so far in log. The result is [acc, log, err].
RECURSIVE MergeFrom(_, _, _, _)
MergeFrom(outs, k, acc, log) ==
    IF k > Len(outs) THEN [acc |-> acc, log |-> log, err |-> ""]
    ELSE IF IsSkipped(outs[k]) THEN MergeFrom(outs, k + 1, acc, log)
    ELSE LET r == Accumulator(acc, outs[k])
             l == Append(log, [acc |-> acc, o |-> outs[k]])
         IN  IF r.err # "" THEN [acc |-> acc, log |-> l, err |-> r.err]
             ELSE MergeFrom(outs, k + 1, r.acc, l)

\* Mutant: the `if acc is None: return ""` test is missing.
MergeOutputsNoNoneCheck(outs) ==
    LET m == MergeFrom(outs, 1, None, <<>>)
    IN  IF m.err # "" THEN [ret |-> NoText, log |-> m.log, err |-> m.err]
        ELSE IF m.acc.tag = "value"
             THEN [ret |-> ModelDumpJson(m.acc.v), log |-> m.log, err |-> ""]
             ELSE [ret |-> NoText, log |-> m.log, err |-> "AttributeError"]

\* _merge_outputs(outputs): [ret, log, err].
MergeOutputs(outs) ==
    LET m == MergeFrom(outs, 1, None, <<>>)
    IN  IF m.err # "" THEN [ret |-> NoText, log |-> m.log, err |-> m.err]
        ELSE IF m.acc.tag = "none" THEN [ret |-> EmptyText, log |-> m.log, err |-> ""]
        ELSE IF m.acc.tag = "value"
             THEN [ret |-> ModelDumpJson(m.acc.v), log |-> m.log, err |-> ""]
             ELSE [ret |-> NoText, log |-> m.log, err |-> "AttributeError"]

\* flatten_list over the one-element lists _give_responses returns.
FlattenList(md) == [k \in 1..Len(md) |-> md[k][1]]

\* ------------------------------------------------- the reflection workflow
\* Mutant: the counter lives on an object all runs share, so the test sees
\* the attempts of every chunk.
RECURSIVE SumUpTo(_, _)
SumUpTo(f, n) == IF n = 0 THEN 0 ELSE f[n] + SumUpTo(f, n - 1)
BudgetExhaustedShared(i) == SumUpTo(retries, numChunks) >= maxRetries[i]

\* Mutant: the budget test is missing.
BudgetNeverExhausted(i) == FALSE
\* Mutant: the budget test off by one, `>` for `>=`.
BudgetExhaustedOffByOne(i) == retries[i] > maxRetries[i]
\* extract: `current_retries >= self.max_retries`.
BudgetExhausted(i) == retries[i] >= maxRetries[i]

\* A step returns StopEvent(result=r): the run ends in state s.
Stop(i, s, r) ==
    /\ wfState' = [wfState EXCEPT ![i] = s]
    /\ wfResult' = [wfResult EXCEPT ![i] = r]
    /\ wfEv' = [wfEv EXCEPT ![i] = NoEvent]
    /\ wfTrace' = [wfTrace EXCEPT ![i] = Append(@, s)]

\* A step returns ExtractionDone: validate is next.
Emit(i, o, d) ==
    /\ wfState' = [wfState EXCEPT ![i] = "Validating"]
    /\ wfEv' = [wfEv EXCEPT ![i] = ExtractionDone(o, d)]
    /\ wfTrace' = [wfTrace EXCEPT ![i] = Append(@, "Validating")]
    /\ UNCHANGED wfResult

WfActive ==
    \/ phase = "standalone"
    \/ phase = "running"
    \/ phase = "raised" /\ entry = "aget" /\ error \notin {"ValueError", "AttributeError"}

\* Mutant: the counter is written before the budget test, so giving up
\* counts as an attempt too.
ExtractGiveUpCounting(i) ==
    /\ BudgetExhausted(i)
    /\ retries' = [retries EXCEPT ![i] = @ + 1]
    /\ Stop(i, "GaveUp", MaxRetriesMsg)
    /\ UNCHANGED <<wfInFlight, wfCalls, prompts>>

\* extract, budget used up: StopEvent("Max retries reached").
ExtractGiveUp(i) ==
    /\ BudgetExhausted(i)
    /\ Stop(i, "GaveUp", MaxRetriesMsg)
    /\ UNCHANGED <<retries, wfInFlight, wfCalls, prompts>>

\* Mutant: the StartEvent branch falls through to the model call instead of
\* returning the data as the first candidate output.
ExtractOnStartInvokingModel(i) ==
    /\ ~BudgetExhausted(i)
    /\ wfEv[i].type = "StartEvent"
    /\ retries' = [retries EXCEPT ![i] = @ + 1]
    /\ IF NotData(wfEv[i].data)
       THEN Stop(i, "NoInput", NoInputMsg) /\ UNCHANGED <<wfInFlight, wfCalls, prompts>>
       ELSE /\ wfInFlight' = [wfInFlight EXCEPT ![i] = TRUE]
            /\ wfCalls' = [wfCalls EXCEPT ![i] = @ + 1]
            /\ prompts' = [prompts EXCEPT ![i] =
                   Append(@, ReflectionPrompt(wfEv[i].data, NoText, NoText))]
            /\ UNCHANGED <<wfState, wfEv, wfResult, wfTrace>>

\* extract on the StartEvent: the data itself is the first candidate output.
ExtractOnStart(i) ==
    /\ ~BudgetExhausted(i)
    /\ wfEv[i].type = "StartEvent"
    /\ retries' = [retries EXCEPT ![i] = @ + 1]
    /\ IF NotData(wfEv[i].data)
       THEN Stop(i, "NoInput", NoInputMsg)
       ELSE Emit(i, wfEv[i].data, wfEv[i].data)
    /\ UNCHANGED <<wfInFlight, wfCalls, prompts>>

\* extract on a ValidationErrorEvent: the prompt is built and the model is
\* called; the step is suspended in llm.acomplete.
ExtractOnError(i) ==
    /\ ~BudgetExhausted(i)
    /\ wfEv[i].type = "ValidationErrorEvent"
    /\ retries' = [retries EXCEPT ![i] = @ + 1]
    /\ wfInFlight' = [wfInFlight EXCEPT ![i] = TRUE]
    /\ wfCalls' = [wfCalls EXCEPT ![i] = @ + 1]
    /\ prompts' = [prompts EXCEPT ![i] =
           Append(@, ReflectionPrompt(wfEv[i].data, wfEv[i].wrong_output, wfEv[i].error))]
    /\ UNCHANGED <<wfState, wfEv, wfResult, wfTrace>>

Extract(i) ==
    /\ WfActive
    /\ wfState[i] = "Extracting"
    /\ ~wfInFlight[i]
    /\ \/ ExtractGiveUp(i)
       \/ ExtractOnStart(i)
       \/ ExtractOnError(i)
    /\ UNCHANGED <<synthVars, taskVars, maxRetries, wfInput, responses>>

\* llm.acomplete returns (or raises) and extract runs to its return.
ExtractReturn(i) ==
    /\ WfActive
    /\ wfState[i] = "Extracting"
    /\ wfInFlight[i]
    /\ wfInFlight' = [wfInFlight EXCEPT ![i] = FALSE]
    /\ \E r \in LLMOutcomes(i) :
          /\ responses' = [responses EXCEPT ![i] = Append(@, r)]
          /\ IF r = TransportError
             THEN Stop(i, "Failed", NoText)
             ELSE Emit(i, r, wfEv[i].data)
    /\ UNCHANGED <<synthVars, taskVars, retries, maxRetries, wfCalls, wfInput, prompts>>

\* Mutant: the event carries the run's data as the wrong output, not the
\* output that just failed.
ValidateCarryingData(i) ==
    /\ WfActive
    /\ wfState[i] = "Validating"
    /\ IF Validates(wfEv[i].output)
       THEN Stop(i, "Succeeded", wfEv[i].output)
       ELSE /\ wfState' = [wfState EXCEPT ![i] = "Extracting"]
            /\ wfEv' = [wfEv EXCEPT ![i] =
                   ValidationErrorEvent(ErrorOf(wfEv[i].data), wfEv[i].data, wfEv[i].data)]
            /\ wfTrace' = [wfTrace EXCEPT ![i] = Append(@, "Extracting")]
            /\ UNCHANGED wfResult
    /\ UNCHANGED <<synthVars, taskVars, retries, maxRetries, wfInFlight, wfCalls, wfInput>>
    /\ UNCHANGED histVars

\* validate.
Validate(i) ==
    /\ WfActive
    /\ wfState[i] = "Validating"
    /\ IF Validates(wfEv[i].output)
       THEN Stop(i, "Succeeded", wfEv[i].output)
       ELSE /\ wfState' = [wfState EXCEPT ![i] = "Extracting"]
            /\ wfEv' = [wfEv EXCEPT ![i] =
                   ValidationErrorEvent(ErrorOf(wfEv[i].output), wfEv[i].output, wfEv[i].data)]
            /\ wfTrace' = [wfTrace EXCEPT ![i] = Append(@, "Extracting")]
            /\ UNCHANGED wfResult
    /\ UNCHANGED <<synthVars, taskVars, retries, maxRetries, wfInFlight, wfCalls, wfInput>>
    /\ UNCHANGED histVars

\* ------------------------------------------------------ stand-alone runs
\* ReflectionWorkflow(max_retries = n).run(data = d), on its own.
InitLoop ==
    /\ streaming = FALSE /\ useAsync = TRUE /\ numChunks = 1
    /\ entry = "run" /\ phase = "standalone"
    /\ outputs = <<>> /\ mergeLog = <<>> /\ response = NoText /\ error = ""
    /\ taskPc = [i \in 1..1 |-> "standalone"]
    /\ taskOut = [i \in 1..1 |-> None]
    /\ calls = [i \in 1..1 |-> 0]
    /\ result = [i \in 1..1 |-> NoText]
    /\ taskErr = [i \in 1..1 |-> ""]
    /\ completed = <<>>
    /\ wfState = [i \in 1..1 |-> "Extracting"]
    /\ retries = [i \in 1..1 |-> 0]
    /\ maxRetries \in [1..1 -> 0..MaxAttempts]
    /\ wfInput \in [1..1 -> LLMOutputs(1) \cup {NoneData}]
    /\ wfEv = [i \in 1..1 |-> StartEvent(wfInput[i])]
    /\ wfInFlight = [i \in 1..1 |-> FALSE]
    /\ wfResult = [i \in 1..1 |-> NoText]
    /\ wfCalls = [i \in 1..1 |-> 0]
    /\ wfTrace = [i \in 1..1 |-> <<"Extracting">>]
    /\ prompts = [i \in 1..1 |-> <<>>]
    /\ responses = [i \in 1..1 |-> <<>>]
    /\ mergeTest = NoMergeTest

NextLoop ==
    /\ \E i \in Chunks : Extract(i) \/ ExtractReturn(i) \/ Validate(i)
    /\ UNCHANGED mergeTest

SpecLoop == InitLoop /\ [][NextLoop]_vars

\* --------------------------------------------------- the response synthesizer
\* StructuredAccumulate(streaming = s, use_async = a) and a list of chunks.
Init ==
    /\ streaming \in BOOLEAN /\ useAsync \in BOOLEAN
    /\ numChunks \in 0..MaxChunks
    /\ entry = "none" /\ phase = "constructed"
    /\ outputs = <<>> /\ mergeLog = <<>> /\ response = NoText /\ error = ""
    /\ taskPc = [i \in Chunks |-> "absent"]
    /\ taskOut = [i \in Chunks |-> None]
    /\ calls = [i \in Chunks |-> 0]
    /\ result = [i \in Chunks |-> NoText]
    /\ taskErr = [i \in Chunks |-> ""]
    /\ completed = <<>>
    /\ wfState = [i \in Chunks |-> "Idle"]
    /\ retries = [i \in Chunks |-> 0]
    /\ maxRetries = [i \in Chunks |-> DefaultMaxRetries]
    /\ wfInput = [i \in Chunks |-> NoText]
    /\ wfEv = [i \in Chunks |-> NoEvent]
    /\ wfInFlight = [i \in Chunks |-> FALSE]
    /\ wfResult = [i \in Chunks |-> NoText]
    /\ wfCalls = [i \in Chunks |-> 0]
    /\ wfTrace = [i \in Chunks |-> <<>>]
    /\ prompts = [i \in Chunks |-> <<>>]
    /\ responses = [i \in Chunks |-> <<>>]
    /\ mergeTest = NoMergeTest

\* `if self._streaming: raise ValueError(...)`, first statement of both
\* entry points.
\* Mutant: the streaming test is missing.
StreamingRequestedNever == FALSE
\* `if self._streaming`.
StreamingRequested == streaming

RaiseIfStreaming(e) ==
    /\ StreamingRequested
    /\ entry' = e
    /\ phase' = "raised"
    /\ error' = "ValueError"
    /\ UNCHANGED <<streaming, useAsync, numChunks, outputs, mergeLog, response>>
    /\ UNCHANGED <<taskVars, wfVars, histVars>>

\* The list comprehension over text_chunks: one _give_response coroutine
\* object per chunk, in chunk order (created, not started).
CreateTasks == [i \in Chunks |-> "created"]

\* return self._merge_outputs(outputs)
ReturnMerged(outs) ==
    LET m == MergeOutputs(outs)
    IN  /\ outputs' = outs
        /\ mergeLog' = m.log
        /\ IF m.err = ""
           THEN phase' = "returned" /\ response' = m.ret /\ error' = ""
           ELSE phase' = "raised" /\ response' = NoText /\ error' = m.err

\* get_response with use_async false: the coroutine objects themselves are
\* the outputs; nothing awaits them.
GetResponseSync ==
    /\ ~StreamingRequested /\ ~useAsync
    /\ entry' = "get"
    /\ taskPc' = CreateTasks
    /\ ReturnMerged(FlattenList([i \in Chunks |-> <<Coroutine(i)>>]))
    /\ UNCHANGED <<streaming, useAsync, numChunks>>
    /\ UNCHANGED <<taskOut, calls, result, taskErr, completed, wfVars, histVars>>

\* get_response with use_async true, up to run_async_tasks(outputs);
\* aget_response up to `await asyncio.gather(...)`.
StartGather(e) ==
    /\ ~StreamingRequested
    /\ entry' = e
    /\ taskPc' = CreateTasks
    /\ phase' = "running"
    /\ UNCHANGED <<streaming, useAsync, numChunks, outputs, mergeLog, response, error>>
    /\ UNCHANGED <<taskOut, calls, result, taskErr, completed, wfVars, histVars>>

GetResponse ==
    /\ phase = "constructed"
    /\ \/ RaiseIfStreaming("get")
       \/ GetResponseSync
       \/ useAsync /\ StartGather("get")

AgetResponse ==
    /\ phase = "constructed"
    /\ \/ RaiseIfStreaming("aget")
       \/ StartGather("aget")

\* _give_response starts: `await predictor(...)`, the primary model call.
PrimaryCall(i) ==
    /\ WfActive
    /\ taskPc[i] = "created"
    /\ taskPc' = [taskPc EXCEPT ![i] = "primary"]
    /\ calls' = [calls EXCEPT ![i] = @ + 1]
    /\ prompts' = [prompts EXCEPT ![i] = Append(@, QAPrompt(ChunkText(i)))]
    /\ UNCHANGED <<synthVars, taskOut, result, taskErr, completed, wfVars, responses>>

\* The task of chunk i ends with return value o.
Finish(i, o) ==
    /\ taskPc' = [taskPc EXCEPT ![i] = "done"]
    /\ taskOut' = [taskOut EXCEPT ![i] = o]
    /\ completed' = Append(completed, i)
    /\ UNCHANGED taskErr

\* The task of chunk i ends with exception e.
Raise(i, e) ==
    /\ taskPc' = [taskPc EXCEPT ![i] = "raised"]
    /\ taskErr' = [taskErr EXCEPT ![i] = e]
    /\ completed' = Append(completed, i)
    /\ UNCHANGED taskOut

\* Mutant: the workflow is run on the chunk text, not on the failing output.
RunWorkflowOnChunk(i, d) ==
    /\ wfState' = [wfState EXCEPT ![i] = "Extracting"]
    /\ wfEv' = [wfEv EXCEPT ![i] = StartEvent(ChunkText(i))]
    /\ wfInput' = [wfInput EXCEPT ![i] = ChunkText(i)]
    /\ wfTrace' = [wfTrace EXCEPT ![i] = <<"Extracting">>]
    /\ retries' = [retries EXCEPT ![i] = 0]
    /\ maxRetries' = [maxRetries EXCEPT ![i] = DefaultMaxRetries]
    /\ UNCHANGED <<wfInFlight, wfResult, wfCalls>>

\* ReflectionWorkflow(llm, output_cls).run(data = d) is started.
RunWorkflow(i, d) ==
    /\ wfState' = [wfState EXCEPT ![i] = "Extracting"]
    /\ wfEv' = [wfEv EXCEPT ![i] = StartEvent(d)]
    /\ wfInput' = [wfInput EXCEPT ![i] = d]
    /\ wfTrace' = [wfTrace EXCEPT ![i] = <<"Extracting">>]
    /\ retries' = [retries EXCEPT ![i] = 0]
    /\ maxRetries' = [maxRetries EXCEPT ![i] = DefaultMaxRetries]
    /\ UNCHANGED <<wfInFlight, wfResult, wfCalls>>

\* Mutant: the first try block does not return, so the reflection workflow
\* is run on every primary output.
PrimaryReturnAlwaysReflects(i) ==
    /\ WfActive
    /\ taskPc[i] = "primary"
    /\ \E r \in LLMOutcomes(i) :
          /\ responses' = [responses EXCEPT ![i] = Append(@, r)]
          /\ IF r = TransportError
             THEN Raise(i, "ModelInvocationError") /\ UNCHANGED <<result, wfVars>>
             ELSE /\ result' = [result EXCEPT ![i] = r]
                  /\ taskPc' = [taskPc EXCEPT ![i] = "reflecting"]
                  /\ RunWorkflow(i, r)
                  /\ UNCHANGED <<taskOut, taskErr, completed>>
    /\ UNCHANGED <<synthVars, calls, prompts>>

\* The primary call returns r (or raises); _give_response validates r and
\* either returns the value or starts the reflection workflow on r.
PrimaryReturn(i) ==
    /\ WfActive
    /\ taskPc[i] = "primary"
    /\ \E r \in LLMOutcomes(i) :
          /\ responses' = [responses EXCEPT ![i] = Append(@, r)]
          /\ IF r = TransportError
             THEN Raise(i, "ModelInvocationError") /\ UNCHANGED <<result, wfVars>>
             ELSE /\ result' = [result EXCEPT ![i] = r]
                  /\ IF Validates(r)
                     THEN Finish(i, Value(ModelValidateJson(r))) /\ UNCHANGED wfVars
                     ELSE /\ taskPc' = [taskPc EXCEPT ![i] = "reflecting"]
                          /\ RunWorkflow(i, r)
                          /\ UNCHANGED <<taskOut, taskErr, completed>>
    /\ UNCHANGED <<synthVars, calls, prompts>>

\* Mutant: the second model_validate_json is not inside try/except.
WorkflowReturnUncaught(i) ==
    /\ WfActive
    /\ taskPc[i] = "reflecting"
    /\ wfState[i] \in Terminal
    /\ IF wfState[i] = "Failed"
       THEN Raise(i, "ModelInvocationError")
       ELSE IF Validates(wfResult[i])
       THEN Finish(i, Value(ModelValidateJson(wfResult[i])))
       ELSE Raise(i, "ValidationError")
    /\ UNCHANGED <<synthVars, calls, result, wfVars, histVars>>

\* Mutant: the no-input result of the workflow is raised as a usage error.
WorkflowReturnRaisingNoInput(i) ==
    /\ WfActive
    /\ taskPc[i] = "reflecting"
    /\ wfState[i] \in Terminal
    /\ IF wfState[i] = "Failed"
       THEN Raise(i, "ModelInvocationError")
       ELSE IF wfResult[i] = NoInputMsg
       THEN Raise(i, "UsageError")
       ELSE IF Validates(wfResult[i])
       THEN Finish(i, Value(ModelValidateJson(wfResult[i])))
       ELSE Finish(i, None)
    /\ UNCHANGED <<synthVars, calls, result, wfVars, histVars>>

\* Mutant: `await reflection_workflow.run(...)` is inside the try block, so
\* a failed run gives None.
WorkflowReturnSwallowsFailure(i) ==
    /\ WfActive
    /\ taskPc[i] = "reflecting"
    /\ wfState[i] \in Terminal
    /\ IF wfState[i] # "Failed" /\ Validates(wfResult[i])
       THEN Finish(i, Value(ModelValidateJson(wfResult[i])))
       ELSE Finish(i, None)
    /\ UNCHANGED <<synthVars, calls, result, wfVars, histVars>>

\* `await reflection_workflow.run(...)` returns (or raises) and
\* _give_response validates the result.
WorkflowReturn(i) ==
    /\ WfActive
    /\ taskPc[i] = "reflecting"
    /\ wfState[i] \in Terminal
    /\ IF wfState[i] = "Failed"
       THEN Raise(i, "ModelInvocationError")
       ELSE IF Validates(wfResult[i])
       THEN Finish(i, Value(ModelValidateJson(wfResult[i])))
       ELSE Finish(i, None)
    /\ UNCHANGED <<synthVars, calls, result, wfVars, histVars>>

\* Mutant: the results are collected in the order the tasks finished.
GatherOutputsInCompletionOrder == [k \in Chunks |-> taskOut[completed[k]]]
\* asyncio.gather returns the results in the order of the awaitables.
GatherOutputs == [i \in Chunks |-> taskOut[i]]

\* gather returns once every task is done, or raises the first exception.
Gather ==
    /\ phase = "running"
    /\ \/ /\ \A i \in Chunks : taskPc[i] = "done"
          /\ ReturnMerged(GatherOutputs)
          /\ UNCHANGED <<streaming, useAsync, numChunks, entry>>
       \/ /\ \E i \in Chunks : taskPc[i] = "raised" /\ error' = taskErr[i]
          /\ phase' = "raised"
          /\ UNCHANGED <<streaming, useAsync, numChunks, entry, outputs, mergeLog, response>>
    /\ UNCHANGED <<taskVars, wfVars, histVars>>

Next ==
    /\ \/ GetResponse
       \/ AgetResponse
       \/ Gather
       \/ \E i \in Chunks :
             \/ PrimaryCall(i)
             \/ PrimaryReturn(i)
             \/ Extract(i)
             \/ ExtractReturn(i)
             \/ Validate(i)
             \/ WorkflowReturn(i)
    /\ UNCHANGED mergeTest

Spec == Init /\ [][Next]_vars

\* Synthesizer runs and stand-alone workflow runs together.
SpecAll == (Init \/ InitLoop) /\ [][Next]_vars

\* Stand-alone workflow runs on an event loop that runs every ready step.
SpecLoopFair == SpecLoop /\ WF_vars(NextLoop)

\* ------------------------------------------------- the accumulator alone
\* Longest article list of an Articles value given to the accumulator.
MaxListLen == 2
ArticleIds == {1, 2}
ArticleLists == UNION {[1..n -> ArticleIds] : n \in 0..MaxListLen}
Articles == {Value(l) : l \in ArticleLists}

\* accumulator is applied to drawn arguments: acc a (possibly None), data b, c.
InitMerge ==
    /\ streaming = FALSE /\ useAsync = FALSE /\ numChunks = 0
    /\ entry = "accumulator" /\ phase = "laws"
    /\ outputs = <<>> /\ mergeLog = <<>> /\ response = NoText /\ error = ""
    /\ taskPc = <<>> /\ taskOut = <<>> /\ calls = <<>> /\ result = <<>>
    /\ taskErr = <<>> /\ completed = <<>>
    /\ wfState = <<>> /\ retries = <<>> /\ maxRetries = <<>> /\ wfInput = <<>>
    /\ wfEv = <<>> /\ wfInFlight = <<>> /\ wfResult = <<>> /\ wfCalls = <<>>
    /\ wfTrace = <<>> /\ prompts = <<>> /\ responses = <<>>
    /\ \E a \in Articles \cup {None}, b, c \in Articles :
          mergeTest = [NoMergeTest EXCEPT !.pc = "start", !.a = a, !.b = b, !.c = c]

\* accumulator(None, b)
CallIdentity ==
    /\ mergeTest.pc = "start"
    /\ mergeTest' = [mergeTest EXCEPT !.pc = "identity",
                        !.ident = Accumulator(None, mergeTest.b).acc]

\* accumulator(accumulator(a, b), c)
CallLeft ==
    /\ mergeTest.pc = "identity"
    /\ mergeTest' = [mergeTest EXCEPT !.pc = "left",
                        !.left = Accumulator(Accumulator(mergeTest.a, mergeTest.b).acc,
                                             mergeTest.c).acc]

\* accumulator(a, accumulator(b, c))
CallRight ==
    /\ mergeTest.pc = "left"
    /\ mergeTest' = [mergeTest EXCEPT !.pc = "right",
                        !.right = Accumulator(mergeTest.a,
                                              Accumulator(mergeTest.b, mergeTest.c).acc).acc]

\* _merge_outputs([b])
CallSingle ==
    /\ mergeTest.pc = "right"
    /\ mergeTest' = [mergeTest EXCEPT !.pc = "done",
                        !.single = MergeOutputs(<<mergeTest.b>>).ret]

NextMerge ==
    /\ CallIdentity \/ CallLeft \/ CallRight \/ CallSingle
    /\ UNCHANGED <<synthVars, taskVars, wfVars, histVars>>

SpecMerge == InitMerge /\ [][NextMerge]_vars

\* ================================================================ claims
\* ---- stand-alone ReflectionWorkflow runs (SpecLoop)

\* C1: a run with max_retries = N never has more than N model invocations,
\* and an extract step entered with retries >= max_retries ends the run in
\* GaveUp without a model call (no call is put in flight, the count stays).
C1_ModelCallsWithinBudget ==
    /\ [](\A i \in Chunks : wfCalls[i] <= maxRetries[i])
    /\ [][\A i \in Chunks :
            (wfState[i] = "Extracting" /\ ~wfInFlight[i] /\ retries[i] >= maxRetries[i])
            => /\ wfCalls'[i] = wfCalls[i]
               /\ ~wfInFlight'[i]
               /\ wfState'[i] \in {"Extracting", "GaveUp"}
               /\ (wfState'[i] = "Extracting" => wfEv'[i] = wfEv[i])]_vars

\* C1 witness: every validation failed, the budget of 3 is used up and the
\* run gave up.
C1_Witness ==
    \E i \in Chunks :
        /\ wfState[i] = "GaveUp" /\ maxRetries[i] = 3 /\ retries[i] = 3
        /\ wfTrace[i] = <<"Extracting", "Validating", "Extracting", "Validating",
                          "Extracting", "Validating", "Extracting", "GaveUp">>

C3_EmptyInputAlwaysNoInput ==
    \A i \in Chunks :
        wfInput[i] \in {EmptyText, NoneData}
        => /\ wfCalls[i] = 0
           /\ (wfState[i] \in Terminal => wfState[i] = "NoInput")

\* C3 amended: for every max_retries >= 1 a run started with empty or absent
\* data ends in the no-input outcome (result "Please provide some text in
\* input", neither Succeeded nor GaveUp); for every max_retries >= 0 the
\* model is never invoked and no validation is attempted.
C3_EmptyInputNoInputWhenBudget ==
    \A i \in Chunks :
        wfInput[i] \in {EmptyText, NoneData}
        => /\ wfCalls[i] = 0
           /\ ~wfInFlight[i]
           /\ wfState[i] # "Validating"
           /\ (wfState[i] \in Terminal /\ maxRetries[i] >= 1)
              => /\ wfState[i] = "NoInput"
                 /\ wfResult[i] = NoInputMsg
                 /\ wfTrace[i] = <<"Extracting", "NoInput">>

\* C3 witness: the empty string ended in the no-input outcome.
C3_Witness ==
    \E i \in Chunks :
        wfState[i] = "NoInput" /\ wfInput[i] = EmptyText /\ maxRetries[i] = 2

\* ---- the response synthesizer (Spec)

\* The outputs that are not None, in list order.
NonNull(outs) == SelectSeq(outs, LAMBDA o : o.tag # "none")
\* The article lists of a sequence of values, concatenated left to right.
RECURSIVE ConcatAll(_)
ConcatAll(vals) == IF vals = <<>> THEN <<>> ELSE Head(vals).v \o ConcatAll(Tail(vals))
\* The left fold of vals through the accumulator from a null accumulator.
FoldLeft(vals) == IF vals = <<>> THEN None ELSE Value(ConcatAll(vals))
\* The serialized aggregate of a list of per-chunk results.
Aggregate(outs) ==
    IF NonNull(outs) = <<>> THEN EmptyText ELSE Json(ConcatAll(NonNull(outs)), FALSE)
\* Per-chunk results: structured values and nulls (no unfinished task).
AreResults(outs) == \A k \in 1..Len(outs) : outs[k].tag \in {"value", "none"}
\* The per-chunk results in original chunk order.
ResultsInChunkOrder == [i \in Chunks |-> taskOut[i]]

\* C4: once _merge_outputs has run on a list of per-chunk results, the call
\* has returned the serialization of the left fold of the non-null results
\* in list order: the accumulator was called once per non-null result, in
\* order, each time with the fold of the earlier ones, and never with None
\* as its second argument.
C4_MergeFoldsNonNullInOrder ==
    (entry # "none" /\ phase \in {"returned", "raised"} /\ error \in {"", "AttributeError"}
        /\ AreResults(outputs))
    => /\ phase = "returned"
       /\ response = Aggregate(outputs)
       /\ Len(mergeLog) = Len(NonNull(outputs))
       /\ \A k \in 1..Len(mergeLog) :
             /\ mergeLog[k].o = NonNull(outputs)[k]
             /\ mergeLog[k].o.tag = "value"
             /\ mergeLog[k].acc = FoldLeft(SubSeq(NonNull(outputs), 1, k - 1))

\* C4 witness: a null result followed by a value was merged.
C4_Witness ==
    /\ phase = "returned" /\ numChunks = 2
    /\ outputs = <<None, Value(<<2>>)>>
    /\ response = Json(<<2>>, FALSE)

\* C5: in concurrent mode the list handed to the fold holds the result of
\* chunk k at position k whatever the completion order, the accumulator
\* receives the non-null results in chunk order, and the articles of the
\* aggregate appear in increasing chunk order.
C5_FoldInChunkOrder ==
    (phase = "returned" /\ (entry = "aget" \/ useAsync))
    => /\ Len(outputs) = numChunks
       /\ \A k \in Chunks : outputs[k] = taskOut[k]
       /\ Len(mergeLog) = Len(NonNull(ResultsInChunkOrder))
       /\ \A k \in 1..Len(mergeLog) : mergeLog[k].o = NonNull(ResultsInChunkOrder)[k]
       /\ \A a, b \in 1..Len(response.arts) :
             a < b => response.arts[a] < response.arts[b]

\* C5 witness: chunk 2 finished before chunk 1 and both were merged.
C5_Witness ==
    /\ phase = "returned" /\ numChunks >= 2
    /\ completed[1] = 2 /\ completed[2] = 1
    /\ taskOut[1].tag = "value" /\ taskOut[2].tag = "value"
    /\ response = Json(<<1, 2>>, FALSE)

\* C6 as stated: when get_response with use_async false has ended, every
\* per-chunk evaluation has run to completion (the model was invoked for
\* every chunk) and the aggregate of the per-chunk results was returned.
C6_SequentialRunsEveryChunk ==
    (entry = "get" /\ ~useAsync /\ ~streaming /\ phase \in {"returned", "raised"})
    => /\ \A i \in Chunks : calls[i] >= 1 /\ taskPc[i] \in {"done", "raised"}
       /\ (phase = "returned" => response = Aggregate(ResultsInChunkOrder))
       /\ (phase = "raised" => error = "ModelInvocationError")

\* C7: with streaming requested both entry points end with the usage error
\* (ValueError); no per-chunk task exists, no model call was made and
\* nothing was merged.
C7_StreamingFailsFast ==
    streaming
    => /\ entry # "none" => (phase = "raised" /\ error = "ValueError")
       /\ \A i \in Chunks :
             /\ taskPc[i] = "absent"
             /\ calls[i] = 0 /\ wfCalls[i] = 0
             /\ wfState[i] = "Idle"
       /\ mergeLog = <<>> /\ outputs = <<>> /\ response = NoText

\* C7 witness: aget_response on two chunks raised the usage error.
C7_Witness ==
    streaming /\ entry = "aget" /\ numChunks = 2 /\ phase = "raised"

\* C8: when the list handed to _merge_outputs is empty or holds only None,
\* the call returns the empty string, raises nothing and never calls the
\* accumulator; an empty chunk sequence always ends this way.
C8_EmptyFoldGivesEmptyString ==
    /\ (entry # "none" /\ ~streaming /\ phase \in {"returned", "raised"}
           /\ error \in {"", "AttributeError"}
           /\ \A k \in 1..Len(outputs) : outputs[k] = None)
       => (phase = "returned" /\ response = EmptyText /\ mergeLog = <<>>)
    /\ (numChunks = 0 /\ ~streaming /\ phase # "running" /\ entry # "none")
       => (phase = "returned" /\ response = EmptyText /\ mergeLog = <<>>)

\* C8 witness: two chunks, both with a null result, gave the empty string.
C8_Witness ==
    /\ phase = "returned" /\ numChunks = 2
    /\ outputs = <<None, None>> /\ response = EmptyText

\* C9: a task whose primary output validates has returned the parsed value
\* of that output, after exactly one model invocation for the chunk and
\* with no reflection workflow ever started.
C9_ValidPrimaryReturnsDirectly ==
    \A i \in Chunks :
        Validates(result[i])
        => /\ taskPc[i] = "done"
           /\ taskOut[i] = Value(result[i].arts)
           /\ calls[i] = 1 /\ wfCalls[i] = 0
           /\ wfState[i] = "Idle" /\ wfTrace[i] = <<>>

\* C9 witness: a padded JSON primary output was returned directly.
C9_Witness ==
    \E i \in Chunks :
        result[i] = Json(<<i>>, TRUE) /\ taskPc[i] = "done" /\ phase = "returned"

\* C10: a task whose reflection workflow gave up returns None and raises
\* nothing; no task and no entry point ever ends with a validation error;
\* and the aggregate returned is that of the other chunks' results.
C10_GaveUpYieldsNull ==
    /\ \A i \in Chunks :
          /\ taskErr[i] \in {"", "ModelInvocationError"}
          /\ (wfState[i] = "GaveUp" /\ taskPc[i] # "reflecting")
             => (taskPc[i] = "done" /\ taskOut[i] = None /\ taskErr[i] = "")
          /\ (wfState[i] = "GaveUp" /\ phase = "returned")
             => /\ outputs[i] = None
                /\ response = Aggregate([k \in Chunks |-> IF k = i THEN None ELSE taskOut[k]])
    /\ error \in {"", "ValueError", "AttributeError", "ModelInvocationError"}

\* C10 witness: chunk 1 never validated, chunk 2 did, and the aggregate is
\* chunk 2's value alone.
C10_Witness ==
    /\ phase = "returned" /\ numChunks = 2
    /\ wfState[1] = "GaveUp" /\ taskOut[2].tag = "value"
    /\ response = Json(<<2>>, FALSE)


\* C11: a task whose model call failed (the primary call or a retry call of
\* its workflow) has ended with that exception and no return value; when one
\* has, the entry point never returns an aggregate: nothing is merged and it
\* can only end by raising the model-invocation error.
C11_TransportFailurePropagates ==
    /\ \A i \in Chunks :
          /\ (Len(responses[i]) > 0 /\ responses[i][Len(responses[i])] = TransportError)
             => /\ taskPc[i] \in {"raised", "reflecting"}
                /\ taskOut[i] = None
                /\ (taskPc[i] = "reflecting" => wfState[i] = "Failed")
                /\ (taskPc[i] = "raised" => taskErr[i] = "ModelInvocationError")
          /\ taskPc[i] = "raised"
             => /\ phase \in {"running", "raised"}
                /\ response = NoText /\ mergeLog = <<>> /\ outputs = <<>>
                /\ (phase = "raised" => error = "ModelInvocationError")
    /\ (phase = "raised" /\ error = "ModelInvocationError")
       => \E i \in Chunks : taskPc[i] = "raised"

\* C11 witness: chunk 1 returned a value, a retry call of chunk 2's workflow
\* failed, and the entry point raised.
C11_Witness ==
    /\ numChunks = 2 /\ phase = "raised" /\ error = "ModelInvocationError"
    /\ taskPc[1] = "done" /\ taskOut[1].tag = "value"
    /\ wfState[2] = "Failed" /\ taskPc[2] = "raised" /\ wfCalls[2] = 2

\* ---- the accumulator alone (SpecMerge)

\* C12: accumulator(None, v) is v; accumulator(accumulator(a, b), c) equals
\* accumulator(a, accumulator(b, c)); and _merge_outputs of one non-null
\* result v returns the serialization of v.
C12_AccumulatorIdentityAndAssociative ==
    /\ mergeTest.pc \in {"identity", "left", "right", "done"}
       => mergeTest.ident = mergeTest.b
    /\ mergeTest.pc \in {"right", "done"}
       => /\ mergeTest.left = mergeTest.right
          /\ mergeTest.left.tag = "value"
          /\ Len(mergeTest.left.v)
                = Len(mergeTest.a.v) + Len(mergeTest.b.v) + Len(mergeTest.c.v)
    /\ mergeTest.pc = "done"
       => mergeTest.single = Json(mergeTest.b.v, FALSE)

\* C12 witness: three non-empty lists were merged both ways.
C12_Witness ==
    /\ mergeTest.pc = "done"
    /\ mergeTest.a = Value(<<1, 2>>) /\ mergeTest.b = Value(<<2>>)
    /\ mergeTest.c = Value(<<1>>)
    /\ mergeTest.left = Value(<<1, 2, 2, 1>>)


\* ---- the response synthesizer (Spec)

\* C13 as stated: in every mode every second argument of the accumulator is
\* a validated structured value, and the list handed to the fold holds only
\* validated values and None (no unfinished task).
C13_OnlyValidatedValuesReachFold ==
    /\ \A k \in 1..Len(mergeLog) : mergeLog[k].o.tag = "value"
    /\ \A k \in 1..Len(outputs) : outputs[k].tag \in {"value", "none"}

\* ---- stand-alone ReflectionWorkflow runs (SpecLoop, SpecLoopFair)

\* The number of times state st occurs in trace tr.
Visits(tr, st) == Cardinality({k \in 1..Len(tr) : tr[k] = st})

\* C14: the retries counter is 0 when the run starts, stays within
\* 0..max_retries, and changes only by +1 in an extract step entered with
\* retries < max_retries.
C14_RetriesWithinBudget ==
    /\ [](\A i \in Chunks :
            /\ 0 <= retries[i] /\ retries[i] <= maxRetries[i]
            /\ (wfTrace[i] = <<"Extracting">> => retries[i] = 0))
    /\ [][\A i \in Chunks :
            \/ retries'[i] = retries[i]
            \/ /\ retries'[i] = retries[i] + 1
               /\ wfState[i] = "Extracting" /\ ~wfInFlight[i]
               /\ retries[i] < maxRetries[i]]_vars

\* C14 witness: the counter reached a budget of 4 and the run gave up.
C14_Witness ==
    \E i \in Chunks :
        retries[i] = 4 /\ maxRetries[i] = 4 /\ wfState[i] = "GaveUp"

\* C15: under fair scheduling every run reaches a terminal state; a
\* terminal state is never left; the run validates at most max_retries
\* times; and a run without a failed model call ends in Succeeded, GaveUp
\* or the no-input outcome.
C15_RunTerminates ==
    /\ <>(wfState[1] \in Terminal)
    /\ [][wfState[1] \in Terminal
            => (wfState'[1] = wfState[1] /\ wfResult'[1] = wfResult[1])]_vars
    /\ [](/\ Visits(wfTrace[1], "Validating") <= maxRetries[1]
          /\ Visits(wfTrace[1], "Extracting") <= maxRetries[1] + 1
          /\ (wfState[1] = "Failed"
                => responses[1][Len(responses[1])] = TransportError))

\* C15 witness: the same junk answer came back every time, the same error
\* was reflected on twice in a row, and the run of budget 4 gave up.
C15_Witness ==
    /\ wfState[1] = "GaveUp" /\ maxRetries[1] = 4
    /\ wfInput[1] = Junk(<<1>>)
    /\ responses[1] = <<Junk(<<1>>), Junk(<<1>>), Junk(<<1>>)>>
    /\ Visits(wfTrace[1], "Validating") = 4

\* C16: a failed validation puts the run back in Extracting with an event
\* that carries the output that just failed and its error text; the data of
\* every event, and the context of every prompt sent, is the text the run
\* was started with; and each retry prompt embeds the output and the error
\* of the attempt just before it.
C16_RetryCarriesLastFailure ==
    /\ [][\A i \in Chunks :
            (wfState[i] = "Validating" /\ wfState'[i] = "Extracting")
            => /\ wfEv'[i].type = "ValidationErrorEvent"
               /\ wfEv'[i].wrong_output = wfEv[i].output
               /\ wfEv'[i].error = ErrorOf(wfEv[i].output)
               /\ wfEv'[i].data = wfInput[i]]_vars
    /\ [](\A i \in Chunks :
            /\ wfEv[i].type # "none" => wfEv[i].data = wfInput[i]
            /\ \A k \in 1..Len(prompts[i]) :
                  /\ prompts[i][k].context = wfInput[i]
                  /\ prompts[i][k].wrong_answer =
                        (IF k = 1 THEN wfInput[i] ELSE responses[i][k - 1])
                  /\ prompts[i][k].error = ErrorOf(prompts[i][k].wrong_answer))

\* C16 witness: the second retry prompt carries the first retry's answer,
\* which differs from the input.
C16_Witness ==
    \E i \in Chunks :
        /\ Len(prompts[i]) = 2
        /\ wfInput[i] = Junk(<<1>>)
        /\ prompts[i][2].wrong_answer = EmptyText
        /\ prompts[i][2].context = Junk(<<1>>)


\* ---- the response synthesizer (Spec)

\* Everything the evaluation of chunk i owns.
ChunkState(i) ==
    <<taskPc[i], taskOut[i], calls[i], result[i], taskErr[i], wfState[i], retries[i],
      maxRetries[i], wfEv[i], wfInFlight[i], wfResult[i], wfCalls[i], wfTrace[i],
      wfInput[i], prompts[i], responses[i]>>
\* The position of the first valid answer among rs[2..], 0 if there is none.
FirstValidRetry(rs) ==
    IF \E k \in 2..Len(rs) : Validates(rs[k])
    THEN CHOOSE k \in 2..Len(rs) : Validates(rs[k]) /\ \A m \in 2..(k - 1) : ~Validates(rs[m])
    ELSE 0
\* The result of evaluating one chunk alone on the answers rs.
AloneOut(rs) ==
    IF Validates(rs[1]) THEN Value(rs[1].arts)
    ELSE IF rs[1] = EmptyText \/ FirstValidRetry(rs) = 0 THEN None
    ELSE Value(rs[FirstValidRetry(rs)].arts)
\* The number of model calls of evaluating one chunk alone on the answers rs.
AloneCalls(rs) ==
    IF Validates(rs[1]) \/ rs[1] = EmptyText THEN 1
    ELSE IF FirstValidRetry(rs) = 0 THEN DefaultMaxRetries
    ELSE FirstValidRetry(rs)

\* C17: once the tasks exist, a step that changes the state of one chunk's
\* evaluation leaves every other chunk's unchanged; each workflow starts with its own counter at 0
\* and gives up only after its own max_retries attempts; and a finished
\* chunk's result and number of model calls are those of evaluating it
\* alone on the answers it received.
C17_ChunksAreIndependent ==
    /\ [][\A i, j \in Chunks :
            (i # j /\ taskPc[i] # "absent" /\ ChunkState(i)' # ChunkState(i))
            => ChunkState(j)' = ChunkState(j)]_vars
    /\ [](\A i \in Chunks :
            /\ (wfTrace[i] = <<"Extracting">> => retries[i] = 0)
            /\ (wfState[i] = "GaveUp"
                  => retries[i] = DefaultMaxRetries /\ wfCalls[i] = DefaultMaxRetries - 1)
            /\ (taskPc[i] = "done"
                  => /\ taskOut[i] = AloneOut(responses[i])
                     /\ calls[i] + wfCalls[i] = AloneCalls(responses[i])
                     /\ Len(responses[i]) = AloneCalls(responses[i])))

\* C17 witness: chunk 1 used up its budget and gave up; chunk 2, finishing
\* after it, still got its own three attempts and succeeded on the last.
C17_Witness ==
    /\ numChunks = 2 /\ completed = <<1, 2>>
    /\ wfState[1] = "GaveUp" /\ taskOut[1] = None
    /\ wfState[2] = "Succeeded" /\ retries[2] = 3 /\ wfCalls[2] = 2
    /\ taskOut[2] = Value(<<2>>)

\* ---- synthesizer runs and stand-alone runs (SpecAll)

\* C18: a workflow with max_retries = N >= 1 makes at most N - 1 model calls
\* (none with N = 0), the first attempt making none; so one chunk costs at
\* most one primary call plus two workflow calls, three in all.
C18_CallsBelowBudget ==
    \A i \in Chunks :
        /\ calls[i] <= 1
        /\ (maxRetries[i] >= 1 => wfCalls[i] <= maxRetries[i] - 1)
        /\ (maxRetries[i] = 0 => wfCalls[i] = 0)
        /\ (retries[i] <= 1 => wfCalls[i] = 0)
        /\ (retries[i] >= 1 => wfCalls[i] = retries[i] - 1)
        /\ (phase # "standalone" => calls[i] + wfCalls[i] <= 3)
        /\ Len(prompts[i]) = calls[i] + wfCalls[i]

\* C18 witness: a chunk that never validated cost exactly three model calls.
C18_Witness ==
    \E i \in Chunks :
        /\ phase = "returned" /\ wfState[i] = "GaveUp"
        /\ calls[i] = 1 /\ wfCalls[i] = 2 /\ Len(responses[i]) = 3

\* ---- the response synthesizer (Spec)

\* C19: when the primary call returns the empty string, the workflow ends
\* in its no-input outcome without a model call, the task returns None
\* after exactly one model invocation, and nothing is raised.
C19_EmptyPrimaryGivesNull ==
    \A i \in Chunks :
        result[i] = EmptyText
        => /\ calls[i] = 1 /\ wfCalls[i] = 0 /\ Len(prompts[i]) = 1
           /\ ~wfInFlight[i]
           /\ wfState[i] \in {"Extracting", "NoInput"}
           /\ taskPc[i] \in {"reflecting", "done"}
           /\ taskErr[i] = ""
           /\ (taskPc[i] = "done" => (taskOut[i] = None /\ wfState[i] = "NoInput"))
           /\ (phase = "raised" => \E j \in Chunks : j # i /\ taskPc[j] = "raised")

\* C19 witness: chunk 1's primary call returned the empty string and the
\* aggregate is chunk 2's value.
C19_Witness ==
    /\ numChunks = 2 /\ phase = "returned"
    /\ result[1] = EmptyText /\ taskOut[1] = None /\ wfResult[1] = NoInputMsg
    /\ response = Json(<<2>>, FALSE)

\* C20: the first prompt of a chunk is the primary prompt on the chunk text;
\* every later prompt is a retry prompt of the workflow whose context is the
\* primary call's failing output, never the chunk text.
C20_RetryContextIsPrimaryOutput ==
    \A i \in Chunks :
        /\ Len(prompts[i]) >= 1 => prompts[i][1] = QAPrompt(ChunkText(i))
        /\ wfState[i] # "Idle" => (wfInput[i] = result[i] /\ ~Validates(result[i]))
        /\ \A k \in 2..Len(prompts[i]) :
              /\ prompts[i][k].template = "EXTRACTION+REFLECTION"
              /\ prompts[i][k].context = result[i]
              /\ prompts[i][k].context # ChunkText(i)

\* C20 witness: the second retry prompt of chunk 1 still has the primary
\* call's junk output as its context.
C20_Witness ==
    \E i \in Chunks :
        /\ Len(prompts[i]) = 3 /\ result[i] = Junk(<<i>>)
        /\ prompts[i][3].context = Junk(<<i>>)
        /\ prompts[i][3].wrong_answer = EmptyText

====
